---- MODULE Spec2Model ----
(***************************************************************************)
(* Model of generate_icons.py: the minimal PNG encoder (create_png,        *)
(* create_chunk) and the icon generation driver (generate_all_icons and    *)
(* the __main__ guard).                                                    *)
(*                                                                         *)
(* Bytes are integers 0..255 and byte strings are sequences of bytes.      *)
(* A 32-bit unsigned value that may exceed 2^31-1 (a CRC) is kept as the   *)
(* pair <<high 16 bits, low 16 bits>>.                                     *)
(***************************************************************************)
EXTENDS Integers, Sequences, FiniteSets, TLC

(***************************************************************************)
(* Bounds of the model.                                                    *)
(***************************************************************************)
MaxWidth == 2
MaxHeight == 2
MaxPayload == 2
BigWidth == 16909060

(***************************************************************************)
(* Byte-level helpers: struct.pack, zlib.crc32, zlib.compress.             *)
(***************************************************************************)
RECURSIVE XorN(_, _, _)
\* bitwise exclusive or of two n-bit naturals
XorN(a, b, n) ==
    IF n = 0 THEN 0
    ELSE (((a % 2) + (b % 2)) % 2) + 2 * XorN(a \div 2, b \div 2, n - 1)

\* exclusive or of 4-bit, 8-bit and 16-bit values
xor_nibble == [a \in 0..15, b \in 0..15 |-> XorN(a, b, 4)]

Xor8(a, b) == xor_nibble[a \div 16, b \div 16] * 16 + xor_nibble[a % 16, b % 16]

Xor16(a, b) == Xor8(a \div 256, b \div 256) * 256 + Xor8(a % 256, b % 256)

XorU32(x, y) == <<Xor16(x[1], y[1]), Xor16(x[2], y[2])>>

Shr1(x) == <<x[1] \div 2, (x[2] \div 2) + (x[1] % 2) * 32768>>

Shr8(x) == <<x[1] \div 256, (x[2] \div 256) + (x[1] % 256) * 256>>

\* the reflected CRC-32 polynomial 0xEDB88320
CrcPoly == <<60856, 33568>>

RECURSIVE CrcBits(_, _)
CrcBits(c, k) ==
    IF k = 0 THEN c
    ELSE CrcBits(IF c[2] % 2 = 1 THEN XorU32(Shr1(c), CrcPoly) ELSE Shr1(c), k - 1)

crc_table == [n \in 0..255 |-> CrcBits(<<0, n>>, 8)]

RECURSIVE CrcUpdate(_, _)
\* the CRC register after the first i bytes of data
CrcUpdate(data, i) ==
    IF i = 0 THEN <<65535, 65535>>
    ELSE LET c == CrcUpdate(data, i - 1)
         IN  IF c = <<>> THEN c
             ELSE XorU32(crc_table[Xor8(c[2] % 256, data[i])], Shr8(c))

\* zlib.crc32(data) & 0xffffffff, as <<high half, low half>>
crc32(data) == XorU32(CrcUpdate(data, Len(data)), <<65535, 65535>>)

\* struct.pack('>I', n) for a 32-bit value held as <<high half, low half>>
pack_I32(u) == <<u[1] \div 256, u[1] % 256, u[2] \div 256, u[2] % 256>>

\* the values struct.pack accepts for format 'I' (0 <= n < 2^32; every
\* integer of the model is below 2^31)
in_range_I(n) == n >= 0

\* struct.pack('>I', n) for a Python int n in range
pack_I(n) ==
    <<(n \div 16777216) % 256, (n \div 65536) % 256, (n \div 256) % 256, n % 256>>

RECURSIVE Adler(_, _)
\* the two Adler-32 sums <<s1, s2>> after the first i bytes of data
Adler(data, i) ==
    IF i = 0 THEN <<1, 0>>
    ELSE LET p == Adler(data, i - 1)
             a == (p[1] + data[i]) % 65521
         IN  <<a, (p[2] + a) % 65521>>

\* the Adler-32 trailer of a zlib stream, big-endian
adler32(data) ==
    LET s == Adler(data, Len(data)) IN pack_I32(<<s[2], s[1]>>)

\* zlib.compress(data, 9): a zlib stream (header 78 DA, one final deflate
\* block, Adler-32 trailer).  The deflate body is modelled as a stored block.
compress(data) ==
    <<120, 218>>
    \o <<1, Len(data) % 256, Len(data) \div 256,
         (65535 - Len(data)) % 256, (65535 - Len(data)) \div 256>>
    \o data
    \o adler32(data)

(***************************************************************************)
(* The encoder.                                                            *)
(***************************************************************************)
png_signature == <<137, 80, 78, 71, 13, 10, 26, 10>>
IHDR == <<73, 72, 68, 82>>
IDAT == <<73, 68, 65, 84>>
IEND == <<73, 69, 78, 68>>

\* a create_chunk whose CRC covers the payload only
create_chunk_crc_payload(chunk_type, data) ==
    LET length == pack_I(Len(data))
        crc == crc32(data)
        crc_bytes == pack_I32(crc)
    IN  length \o chunk_type \o data \o crc_bytes

create_chunk(chunk_type, data) ==
    LET length == pack_I(Len(data))
        crc == crc32(chunk_type \o data)
        crc_bytes == pack_I32(crc)
    IN  length \o chunk_type \o data \o crc_bytes

\* an ihdr_data that packs height before width
ihdr_data_swapped(width, height) ==
    IF ~in_range_I(width) \/ ~in_range_I(height) THEN [status |-> "struct.error"]
    ELSE [status |-> "ok",
          data |-> pack_I(height) \o pack_I(width) \o <<8, 2, 0, 0, 0>>]

\* struct.pack('>IIBBBBB', width, height, 8, 2, 0, 0, 0)
ihdr_data(width, height) ==
    IF ~in_range_I(width) \/ ~in_range_I(height) THEN [status |-> "struct.error"]
    ELSE [status |-> "ok",
          data |-> pack_I(width) \o pack_I(height) \o <<8, 2, 0, 0, 0>>]

RECURSIVE Repeat(_, _)
Repeat(s, n) == IF n <= 0 THEN <<>> ELSE s \o Repeat(s, n - 1)

\* an image_data that leaves out the filter byte of each scanline
image_data_no_filter(width, height, bg_color) ==
    IF height > 0 /\ width > 0 /\ \E k \in 1..Len(bg_color) : bg_color[k] \notin 0..255
    THEN [status |-> "ValueError"]
    ELSE [status |-> "ok", data |-> Repeat(Repeat(bg_color, width), height)]

\* the bytearray built by the two nested loops; bytearray.extend raises
\* ValueError for a channel outside 0..255 the first time it is reached
image_data(width, height, bg_color) ==
    IF height > 0 /\ width > 0 /\ \E k \in 1..Len(bg_color) : bg_color[k] \notin 0..255
    THEN [status |-> "ValueError"]
    ELSE [status |-> "ok", data |-> Repeat(<<0>> \o Repeat(bg_color, width), height)]

\* a create_png that leaves the IEND chunk out of the concatenation
create_png_no_iend(width, height, bg_color, text_color) ==
    LET hdr == ihdr_data(width, height)
        img == image_data(width, height, bg_color)
    IN  IF hdr.status # "ok" THEN [status |-> hdr.status]
        ELSE IF img.status # "ok" THEN [status |-> img.status]
        ELSE [status |-> "ok",
              png |-> png_signature
                      \o create_chunk(IHDR, hdr.data)
                      \o create_chunk(IDAT, compress(img.data))]

\* a create_png that paints the pixels with text_color
create_png_text_color(width, height, bg_color, text_color) ==
    LET hdr == ihdr_data(width, height)
        img == image_data(width, height, text_color)
    IN  IF hdr.status # "ok" THEN [status |-> hdr.status]
        ELSE IF img.status # "ok" THEN [status |-> img.status]
        ELSE [status |-> "ok",
              png |-> png_signature
                      \o create_chunk(IHDR, hdr.data)
                      \o create_chunk(IDAT, compress(img.data))
                      \o create_chunk(IEND, <<>>)]

create_png(width, height, bg_color, text_color) ==
    LET hdr == ihdr_data(width, height)
        img == image_data(width, height, bg_color)
    IN  IF hdr.status # "ok" THEN [status |-> hdr.status]
        ELSE IF img.status # "ok" THEN [status |-> img.status]
        ELSE [status |-> "ok",
              png |-> png_signature
                      \o create_chunk(IHDR, hdr.data)
                      \o create_chunk(IDAT, compress(img.data))
                      \o create_chunk(IEND, <<>>)]

\* the default arguments of create_png
default_bg_color == <<255, 107, 107>>
default_text_color == <<33, 150, 243>>

(***************************************************************************)
(* Calls of the encoder: the arguments are drawn from small sets, the      *)
(* last call and its result are kept.                                     *)
(***************************************************************************)
Widths == (-1)..MaxWidth
Heights == (-1)..MaxHeight
Dims == (Widths \X Heights) \cup {<<BigWidth, 0>>}
BgColors == {default_bg_color, default_text_color, <<0, 256, 0>>}
TextColors == {default_text_color, default_bg_color}
tEXt == <<116, 69, 88, 116>>
ChunkTypes == {IHDR, IDAT, IEND, tEXt}
Payloads == UNION {[1..n -> {0, 1, 255}] : n \in 0..MaxPayload}

\* The output of create_png for the sizes of the density table, which are too
\* large to expand byte by byte: the signature and the IHDR chunk as bytes, the
\* IDAT chunk as the raw buffer it compresses (scanlines, pixels per scanline,
\* pixel colour).
create_png_summary(width, height, bg_color, text_color) ==
    [head |-> png_signature \o create_chunk(IHDR, ihdr_data(width, height).data),
     scanlines |-> height,
     pixels |-> width,
     pixel |-> bg_color]

(***************************************************************************)
(* The driver: generate_all_icons under the __main__ guard.                *)
(***************************************************************************)
densities == [mdpi |-> 48, hdpi |-> 72, xhdpi |-> 96, xxhdpi |-> 144, xxxhdpi |-> 192]

\* the iteration order of densities.items(): insertion order
density_order == <<"mdpi", "hdpi", "xhdpi", "xxhdpi", "xxxhdpi">>

base_path == "app/src/main/res"

mipmap_dir(density) == base_path \o "/mipmap-" \o density

\* a launcher_path that names the round icon
launcher_path_round(density) == mipmap_dir(density) \o "/ic_launcher_round.png"

launcher_path(density) == mipmap_dir(density) \o "/ic_launcher.png"

launcher_round_path(density) == mipmap_dir(density) \o "/ic_launcher_round.png"

\* the part of the filesystem the model follows: the five mipmap directories
\* of the table and one the table does not name
OtherDir == base_path \o "/mipmap-ldpi"
AllDirs == {mipmap_dir(density_order[k]) : k \in 1..Len(density_order)} \cup {OtherDir}
FileNames == {"/ic_launcher.png", "/ic_launcher_round.png"}
AllPaths == {d \o n : d \in AllDirs, n \in FileNames}

\* contents of a path: no file, a file left by an earlier run, a file opened
\* with 'wb' whose write did not complete, or the bytes create_png returned
Absent == [kind |-> "absent"]
Old == [kind |-> "old"]
Partial == [kind |-> "partial"]

VARIABLES
    last,          \* the last encoder call made directly, with its result
    pc,            \* position of the run
    idx,             \* index in density_order of the density being processed
    dirs,          \* directories that exist
    files,         \* contents of every path of AllPaths
    files0,        \* the contents when the run started
    png_data,      \* the local png_data of the loop body
    stdout,        \* what has been printed
    exc,           \* the step whose exception ended the run, "none" if none
    raised,        \* TRUE when an exception left the process uncaught
    encoder_calls  \* number of create_png invocations of the run

vars == <<last, pc, idx, dirs, files, files0, png_data, stdout, exc, raised, encoder_calls>>

driver_vars == <<pc, idx, dirs, files, files0, png_data, stdout, exc, raised, encoder_calls>>

NoCall == [op |-> "none"]
NoData == [kind |-> "unset"]

density == density_order[idx]
size == densities[density]

\* the filesystem before the run: every directory is missing, empty, or holds
\* both icons of an earlier run
InitDriver ==
    /\ pc = "start"
    /\ idx = 1
    /\ dirs \in SUBSET AllDirs
    /\ \E full \in SUBSET dirs :
           files = [p \in AllPaths |->
                      IF \E d \in full, n \in FileNames : p = d \o n THEN Old ELSE Absent]
    /\ files0 = files
    /\ png_data = NoData
    /\ stdout = <<>>
    /\ exc = "none"
    /\ raised = FALSE
    /\ encoder_calls = 0

Init == last = NoCall /\ InitDriver

\* lines 52-63: the table, base_path and the two header lines
Start ==
    /\ pc = "start"
    /\ stdout' = Append(stdout, <<"generating">>)
    /\ pc' = "makedirs"
    /\ UNCHANGED <<last, idx, dirs, files, files0, png_data, exc, raised, encoder_calls>>

\* line 69: os.makedirs(mipmap_dir, exist_ok=True)
Makedirs ==
    /\ pc = "makedirs"
    /\ dirs' = dirs \cup {mipmap_dir(density)}
    /\ pc' = "create_png"
    /\ UNCHANGED <<last, idx, files, files0, png_data, stdout, exc, raised, encoder_calls>>

MakedirsFail ==
    /\ pc = "makedirs"
    /\ exc' = "makedirs"
    /\ pc' = "except"
    /\ UNCHANGED <<last, idx, dirs, files, files0, png_data, stdout, raised, encoder_calls>>

\* line 76: png_data = create_png(size, size)
CreatePng ==
    /\ pc = "create_png"
    /\ png_data' = create_png_summary(size, size, default_bg_color, default_text_color)
    /\ encoder_calls' = encoder_calls + 1
    /\ pc' = "write_launcher"
    /\ UNCHANGED <<last, idx, dirs, files, files0, stdout, exc, raised>>

CreatePngFail ==
    /\ pc = "create_png"
    /\ encoder_calls' = encoder_calls + 1
    /\ exc' = "create_png"
    /\ pc' = "except"
    /\ UNCHANGED <<last, idx, dirs, files, files0, png_data, stdout, raised>>

\* lines 79-81: write png_data to launcher_path, report it
WriteLauncher ==
    /\ pc = "write_launcher"
    /\ files' = [files EXCEPT ![launcher_path(density)] = png_data]
    /\ stdout' = Append(stdout, <<"created", launcher_path(density), size>>)
    /\ pc' = "write_round"
    /\ UNCHANGED <<last, idx, dirs, files0, png_data, exc, raised, encoder_calls>>

\* open() fails and leaves the path alone, or f.write() fails after open()
\* truncated the file
WriteLauncherFail ==
    /\ pc = "write_launcher"
    /\ \/ files' = files
       \/ files' = [files EXCEPT ![launcher_path(density)] = Partial]
    /\ exc' = "write_launcher"
    /\ pc' = "except"
    /\ UNCHANGED <<last, idx, dirs, files0, png_data, stdout, raised, encoder_calls>>

\* a WriteRound that opens launcher_path a second time
WriteRoundToLauncher ==
    /\ pc = "write_round"
    /\ files' = [files EXCEPT ![launcher_path(density)] = png_data]
    /\ stdout' = Append(stdout, <<"created", launcher_round_path(density), size>>)
    /\ IF idx < Len(density_order)
       THEN idx' = idx + 1 /\ pc' = "makedirs"
       ELSE idx' = idx /\ pc' = "complete"
    /\ UNCHANGED <<last, dirs, files0, png_data, exc, raised, encoder_calls>>

\* a WriteRound that calls the encoder again for the round icon
WriteRoundEncodeAgain ==
    /\ pc = "write_round"
    /\ encoder_calls' = encoder_calls + 1
    /\ files' = [files EXCEPT ![launcher_round_path(density)] =
                     create_png_summary(size, size, default_bg_color, default_text_color)]
    /\ stdout' = Append(stdout, <<"created", launcher_round_path(density), size>>)
    /\ IF idx < Len(density_order)
       THEN idx' = idx + 1 /\ pc' = "makedirs"
       ELSE idx' = idx /\ pc' = "complete"
    /\ UNCHANGED <<last, dirs, files0, png_data, exc, raised>>

\* lines 83-85: write the same png_data to launcher_round_path, report it;
\* then the next density, or lines 87-93 after the last
WriteRound ==
    /\ pc = "write_round"
    /\ files' = [files EXCEPT ![launcher_round_path(density)] = png_data]
    /\ stdout' = Append(stdout, <<"created", launcher_round_path(density), size>>)
    /\ IF idx < Len(density_order)
       THEN idx' = idx + 1 /\ pc' = "makedirs"
       ELSE idx' = idx /\ pc' = "complete"
    /\ UNCHANGED <<last, dirs, files0, png_data, exc, raised, encoder_calls>>

\* a failure of the round icon that is swallowed: the loop goes on
WriteRoundFailContinue ==
    /\ pc = "write_round"
    /\ \/ files' = files
       \/ files' = [files EXCEPT ![launcher_round_path(density)] = Partial]
    /\ exc' = "write_round"
    /\ IF idx < Len(density_order)
       THEN idx' = idx + 1 /\ pc' = "makedirs"
       ELSE idx' = idx /\ pc' = "complete"
    /\ UNCHANGED <<last, dirs, files0, png_data, stdout, raised, encoder_calls>>

WriteRoundFail ==
    /\ pc = "write_round"
    /\ \/ files' = files
       \/ files' = [files EXCEPT ![launcher_round_path(density)] = Partial]
    /\ exc' = "write_round"
    /\ pc' = "except"
    /\ UNCHANGED <<last, idx, dirs, files0, png_data, stdout, raised, encoder_calls>>

\* lines 87-93: the success banner; generate_all_icons returns
Complete ==
    /\ pc = "complete"
    /\ stdout' = Append(stdout, <<"complete">>)
    /\ pc' = "exit"
    /\ UNCHANGED <<last, idx, dirs, files, files0, png_data, exc, raised, encoder_calls>>

\* lines 98-104: except Exception as e: the error and the remediation steps
Handler ==
    /\ pc = "except"
    /\ stdout' = Append(stdout, <<"error", exc>>)
    /\ pc' = "exit"
    /\ UNCHANGED <<last, idx, dirs, files, files0, png_data, exc, raised, encoder_calls>>

Next ==
    \/ Start
    \/ Makedirs \/ MakedirsFail
    \/ CreatePng \/ CreatePngFail
    \/ WriteLauncher \/ WriteLauncherFail
    \/ WriteRound \/ WriteRoundFail
    \/ Complete
    \/ Handler

Spec == Init /\ [][Next]_vars

(***************************************************************************)
(* Direct calls of the encoder.                                            *)
(***************************************************************************)
\* no run of the driver: its variables keep one initial value
InitEnc ==
    /\ last = NoCall
    /\ InitDriver
    /\ dirs = {}

CallCreatePng ==
    /\ \E d \in Dims, bg \in BgColors, tc \in TextColors :
           last' = [op |-> "create_png", width |-> d[1], height |-> d[2],
                    bg_color |-> bg, text_color |-> tc,
                    result |-> create_png(d[1], d[2], bg, tc)]
    /\ UNCHANGED driver_vars

CallCreateChunk ==
    /\ \E t \in ChunkTypes, data \in Payloads :
           last' = [op |-> "create_chunk", chunk_type |-> t, data |-> data,
                    result |-> create_chunk(t, data)]
    /\ UNCHANGED driver_vars

NextEnc == CallCreatePng \/ CallCreateChunk

SpecEnc == InitEnc /\ [][NextEnc]_vars

(***************************************************************************)
(* The reader's side: what a PNG decoder does with the bytes.  Used only   *)
(* to state the properties of the encoder's output.                        *)
(***************************************************************************)
\* struct.unpack('>I', b) for a value below 2^31
unpack_I(b) == ((b[1] * 256 + b[2]) * 256 + b[3]) * 256 + b[4]

\* zlib.decompress: the inverse a PNG reader applies to the IDAT payload
decompress(z) ==
    IF Len(z) < 11 THEN [status |-> "zlib.error"]
    ELSE LET n == z[4] + 256 * z[5]
             body == SubSeq(z, 8, 7 + n)
         IN  IF /\ z[1] = 120 /\ z[2] = 218 /\ z[3] = 1
                /\ Len(z) = 11 + n
                /\ z[6] + 256 * z[7] = 65535 - n
                /\ SubSeq(z, 8 + n, 11 + n) = adler32(body)
             THEN [status |-> "ok", data |-> body]
             ELSE [status |-> "zlib.error"]

RECURSIVE ReadChunks(_)
\* walk a chunk stream by the declared lengths
ReadChunks(s) ==
    IF s = <<>> THEN <<>>
    ELSE IF Len(s) < 12 \/ s[1] >= 128 THEN <<[wellformed |-> FALSE]>>
    ELSE LET n == unpack_I(SubSeq(s, 1, 4))
         IN  IF Len(s) < 12 + n THEN <<[wellformed |-> FALSE]>>
             ELSE <<[wellformed |-> TRUE,
                     length |-> n,
                     type |-> SubSeq(s, 5, 8),
                     data |-> SubSeq(s, 9, 8 + n),
                     crc |-> SubSeq(s, 9 + n, 12 + n)]>>
                  \o ReadChunks(SubSeq(s, 13 + n, Len(s)))

RECURSIVE CrcRefUpdate(_, _)
\* CRC-32 bit by bit, as the PNG specification defines it
CrcRefUpdate(data, i) ==
    IF i = 0 THEN <<65535, 65535>>
    ELSE LET c == CrcRefUpdate(data, i - 1)
         IN  IF c = <<>> THEN c
             ELSE CrcBits(<<c[1], Xor16(c[2], data[i])>>, 8)

Crc32Ref(data) == XorU32(CrcRefUpdate(data, Len(data)), <<65535, 65535>>)

PngOk == last.op = "create_png" /\ last.result.status = "ok"

\* the chunks of the last create_png output, after the 8-byte signature
OutChunks == ReadChunks(SubSeq(last.result.png, 9, Len(last.result.png)))

ValidColor(c) == \A k \in 1..Len(c) : c[k] \in 0..255

\* the raw image buffer a reader recovers from the IDAT payload
Inflated == decompress(OutChunks[2].data)

RawBuffer == Inflated.data

Stride == 1 + 3 * last.width

FramedAs(bytes, t, data) ==
    /\ Len(bytes) = 12 + Len(data)
    /\ unpack_I(SubSeq(bytes, 1, 4)) = Len(data)
    /\ SubSeq(bytes, 5, 8) = t
    /\ SubSeq(bytes, 9, 8 + Len(data)) = data
    /\ SubSeq(bytes, 9 + Len(data), 12 + Len(data)) = pack_I32(Crc32Ref(t \o data))

\* C1: create_chunk(type, data) is the big-endian length of data, the type
\* tag, data unchanged and the big-endian CRC-32 of type ++ data, 12 + len(data)
\* bytes in all; every chunk of a create_png output declares the length of its
\* payload and carries the CRC-32 of its type and payload.
C1_ChunkFraming ==
    /\ last.op = "create_chunk" =>
           FramedAs(last.result, last.chunk_type, last.data)
    /\ PngOk =>
           \A i \in 1..Len(OutChunks) :
               /\ OutChunks[i].wellformed
               /\ OutChunks[i].length = Len(OutChunks[i].data)
               /\ OutChunks[i].crc =
                      pack_I32(Crc32Ref(OutChunks[i].type \o OutChunks[i].data))

C1_Witness ==
    \/ last.op = "create_chunk" /\ Len(last.data) = MaxPayload /\ last.chunk_type = tEXt
    \/ PngOk /\ last.width = MaxWidth /\ last.height = MaxHeight

\* C2: the output of create_png is the 8-byte PNG signature followed by exactly
\* three chunks, IHDR then IDAT then IEND with an empty payload, and nothing else.
C2_ThreeChunks ==
    PngOk =>
        /\ SubSeq(last.result.png, 1, 8) = <<137, 80, 78, 71, 13, 10, 26, 10>>
        /\ Len(OutChunks) = 3
        /\ \A i \in 1..Len(OutChunks) : OutChunks[i].wellformed
        /\ OutChunks[1].type = IHDR
        /\ OutChunks[2].type = IDAT
        /\ OutChunks[3].type = IEND
        /\ OutChunks[3].data = <<>>

C2_Witness == PngOk /\ last.width = MaxWidth /\ last.height = MaxHeight

C4_Header ==
    (/\ last.op = "create_png" /\ last.width >= 0 /\ last.height >= 0
     /\ ValidColor(last.bg_color)) =>
        /\ last.result.status = "ok"
        /\ OutChunks[1].type = IHDR
        /\ Len(OutChunks[1].data) = 13
        /\ unpack_I(SubSeq(OutChunks[1].data, 1, 4)) = last.width
        /\ unpack_I(SubSeq(OutChunks[1].data, 5, 8)) = last.height
        /\ SubSeq(OutChunks[1].data, 9, 13) = <<8, 2, 0, 0, 0>>
        /\ Inflated.status = "ok"
        /\ Len(RawBuffer) = unpack_I(SubSeq(OutChunks[1].data, 5, 8)) * Stride

C4_Witness ==
    \/ PngOk /\ last.width = BigWidth
    \/ PngOk /\ last.width = 1 /\ last.height = MaxHeight

C8_ZeroWidth ==
    (last.op = "create_png" /\ last.width = 0 /\ last.height > 0) =>
        \/ last.result.status # "ok"
        \/ /\ Len(OutChunks) = 3
           /\ Inflated.status = "ok"
           /\ RawBuffer = <<>>

(***************************************************************************)
(* Properties of the driver.                                               *)
(***************************************************************************)
\* the paths reported as created, in the order they were written
WrittenPaths ==
    LET c == SelectSeq(stdout, LAMBDA m : m[1] = "created")
    IN  [k \in 1..Len(c) |-> c[k][2]]

Printed(tag) == Cardinality({k \in 1..Len(stdout) : stdout[k][1] = tag})

ExpectedDirs ==
    <<"app/src/main/res/mipmap-mdpi", "app/src/main/res/mipmap-hdpi",
      "app/src/main/res/mipmap-xhdpi", "app/src/main/res/mipmap-xxhdpi",
      "app/src/main/res/mipmap-xxxhdpi">>

ExpectedSizes == <<48, 72, 96, 144, 192>>

ExpectedFiles ==
    <<"app/src/main/res/mipmap-mdpi/ic_launcher.png",
      "app/src/main/res/mipmap-mdpi/ic_launcher_round.png",
      "app/src/main/res/mipmap-hdpi/ic_launcher.png",
      "app/src/main/res/mipmap-hdpi/ic_launcher_round.png",
      "app/src/main/res/mipmap-xhdpi/ic_launcher.png",
      "app/src/main/res/mipmap-xhdpi/ic_launcher_round.png",
      "app/src/main/res/mipmap-xxhdpi/ic_launcher.png",
      "app/src/main/res/mipmap-xxhdpi/ic_launcher_round.png",
      "app/src/main/res/mipmap-xxxhdpi/ic_launcher.png",
      "app/src/main/res/mipmap-xxxhdpi/ic_launcher_round.png">>

\* content is the create_png output for a square of n pixels in the default colour
IsSquareIcon(content, n) ==
    /\ content \notin {Absent, Old, Partial}
    /\ Len(content.head) = 33
    /\ SubSeq(content.head, 13, 16) = IHDR
    /\ unpack_I(SubSeq(content.head, 17, 20)) = n
    /\ unpack_I(SubSeq(content.head, 21, 24)) = n
    /\ content.scanlines = n
    /\ content.pixels = n
    /\ content.pixel = <<255, 107, 107>>

\* C6: a run in which no step fails ends having written exactly the 10 icon
\* files of the five densities, each the create_png output for that density's
\* square, and touched no other path; the success banner is printed only after
\* all 10 are written.
C6_TenFiles ==
    /\ (pc = "exit" /\ exc = "none") =>
           /\ WrittenPaths = ExpectedFiles
           /\ \A k \in 1..5 :
                  /\ IsSquareIcon(files[ExpectedDirs[k] \o "/ic_launcher.png"],
                                  ExpectedSizes[k])
                  /\ IsSquareIcon(files[ExpectedDirs[k] \o "/ic_launcher_round.png"],
                                  ExpectedSizes[k])
           /\ \A p \in AllPaths :
                  (\A k \in 1..10 : p # ExpectedFiles[k]) => files[p] = files0[p]
    /\ Printed("complete") > 0 =>
           /\ WrittenPaths = ExpectedFiles
           /\ \A k \in 1..10 : files[ExpectedFiles[k]] \notin {Absent, Old, Partial}

C6_Witness ==
    /\ pc = "exit" /\ exc = "none" /\ Printed("complete") = 1
    /\ files0["app/src/main/res/mipmap-hdpi/ic_launcher.png"] = Old
    /\ files0["app/src/main/res/mipmap-xhdpi/ic_launcher.png"] = Absent
    /\ files0["app/src/main/res/mipmap-ldpi/ic_launcher.png"] = Old

\* C7: when a step fails, the files written before it stay as they are, no
\* file is written afterwards, the handler is the only step left, the error
\* text is printed exactly once, the success banner never, and the handler's
\* step ends the process with no exception leaving it.
C7_AbortOnFailure ==
    [][/\ \A k \in 1..Len(WrittenPaths) :
              files'[WrittenPaths[k]] = files[WrittenPaths[k]]
       /\ exc # "none" =>
              /\ files' = files
              /\ WrittenPaths' = WrittenPaths
              /\ pc = "except" /\ pc' = "exit"
       /\ exc' # "none" =>
              /\ Printed("complete")' = 0
              /\ ~raised'
              /\ Printed("error")' = (IF pc' = "exit" THEN 1 ELSE 0)
      ]_vars

C7_Witness ==
    /\ pc = "exit" /\ exc = "write_round" /\ idx = 3
    /\ files["app/src/main/res/mipmap-xhdpi/ic_launcher_round.png"] = Partial
    /\ Len(WrittenPaths) = 5

\* C9: the encoder is invoked once per density, five times in a successful
\* run, and both files of a density written by the run have the same content.
C9_OneEncodePerDensity ==
    /\ encoder_calls \in {idx - 1, idx}
    /\ (pc = "exit" /\ exc = "none") => encoder_calls = 5
    /\ pc \in {"write_launcher", "write_round"} => encoder_calls = idx
    /\ \A k \in 1..5 :
           Len(WrittenPaths) >= 2 * k =>
               files[ExpectedDirs[k] \o "/ic_launcher.png"]
                   = files[ExpectedDirs[k] \o "/ic_launcher_round.png"]

C9_Witness ==
    /\ pc = "exit" /\ exc = "none" /\ encoder_calls = 5
    /\ files0["app/src/main/res/mipmap-mdpi/ic_launcher_round.png"] = Old

\* C10: the files written so far are a prefix of the table order (regular icon
\* before round icon, density after density), the directory of every written
\* file exists, and a density is begun only after both files of the one before.
C10_SequentialPrefix ==
    /\ Len(WrittenPaths) <= 10
    /\ WrittenPaths = SubSeq(ExpectedFiles, 1, Len(WrittenPaths))
    /\ \A k \in 1..Len(WrittenPaths) : ExpectedDirs[(k + 1) \div 2] \in dirs
    /\ pc \in {"makedirs", "create_png", "write_launcher"} =>
           Len(WrittenPaths) = 2 * (idx - 1)
    /\ pc = "write_round" => Len(WrittenPaths) = 2 * idx - 1

C10_Witness ==
    /\ pc = "write_round" /\ idx = 4
    /\ "app/src/main/res/mipmap-xxhdpi" \notin {d \in AllDirs : files0[d \o "/ic_launcher.png"] = Old}
    /\ "app/src/main/res/mipmap-xxxhdpi" \notin dirs
====
